---- MODULE Spec2Model ----
(***************************************************************************)
(* Placeholder / ContentItem storage model of django-fluent-contents       *)
(* (fluent_contents/models/db.py): the two tables, the shared cache store, *)
(* and the handlers that write them.                                       *)
(***************************************************************************)
EXTENDS Integers, Sequences, FiniteSets, TLC

----------------------------------------------------------------------------
(* Bounds and value domains *)

\* Primary keys the database may hand out for content items and placeholders.
MaxItems == 2

ItemIds == 1..MaxItems
PlaceholderIds == {1, 2}

\* A null integer column (parent_id, placeholder_id).  Primary keys start at 1.
NULL == 0
\* A null parent_type (ContentType) column of a placeholder.
NoType == ""
\* The unset language_code (the column default).
NoLanguage == ""

Slots == {"main", "sidebar"}
TypeTags == {"page"}
ParentIds == {1, 2}
Languages == {"en", "fr"}
SortOrders == {1, 2}

\* Owner references a placeholder can be created with: a saved parent, or the
\* not-yet-saved parent (both columns null).
SavedParents ==
    { [parent_type |-> t, parent_id |-> n] : t \in TypeTags, n \in ParentIds }

PlaceholderParents ==
    SavedParents \cup { [parent_type |-> NoType, parent_id |-> NULL] }

\* Owner references a content item can be created with.
ItemParents == SavedParents

FLUENT_CONTENTS_DEFAULT_LANGUAGE_CODE == "en"

----------------------------------------------------------------------------
(* State *)

VARIABLES
    placeholders,   \* Placeholder table: id -> row
    contentitems,   \* ContentItem table: id -> row
    cache,          \* shared cache store: the set of keys that hold an entry
    pc,             \* NULL, or the id of the placeholder whose delete() has
                    \* run its detach statement but not yet removed the row
    before,         \* while pc # NULL: the ContentItem table as it was when
                    \* that delete() was called
    log             \* the storage / cache calls of the last handler, in order

vars == <<placeholders, contentitems, cache, pc, before, log>>

Placeholder(slot, parent_type, parent_id) ==
    [slot |-> slot, parent_type |-> parent_type, parent_id |-> parent_id]

ContentItem(parent_type, parent_id, language_code, placeholder_id, sort_order) ==
    [parent_type |-> parent_type, parent_id |-> parent_id,
     language_code |-> language_code, placeholder_id |-> placeholder_id,
     sort_order |-> sort_order]

\* One entry of the call log: the call, the primary key it is about, a name
\* argument (slot or language), and a number argument (the rows a bulk
\* statement matched, the parent_id a query was given).
Call(name, id, arg) == [call |-> name, id |-> id, arg |-> arg, n |-> 0]

NoRows == [i \in {} |-> ContentItem("page", NULL, NoLanguage, NULL, 1)]

Range(s) == { s[n] : n \in DOMAIN s }

\* f without the row k.
Remove(f, k) == [x \in DOMAIN f \ {k} |-> f[x]]

\* f with the row k set to v (insert or overwrite).
Put(f, k, v) == [x \in DOMAIN f \cup {k} |-> IF x = k THEN v ELSE f[x]]

Init ==
    /\ placeholders = [p \in {} |-> Placeholder("main", NoType, NULL)]
    /\ contentitems = NoRows
    /\ cache = {}
    /\ pc = NULL
    /\ before = NoRows
    /\ log = <<>>

----------------------------------------------------------------------------
(* Cache invalidation *)

\* The key a plugin stores the rendered output of one item under: one key per
\* (placeholder slot, item).
CacheKey(slot, id) == [slot |-> slot, id |-> id]

\* plugin.get_output_cache_keys(placeholder_name, item): an ordered list.
get_output_cache_keys(placeholder_name, id) == << CacheKey(placeholder_name, id) >>

\* ContentItem.get_cache_keys() of the instance `item` with primary key `id`,
\* its placeholder row read from the table `phs`.
get_cache_keys(item, id, phs) ==
    IF item.placeholder_id = NULL
    THEN <<>>
    ELSE get_output_cache_keys(phs[item.placeholder_id].slot, id)

\* ContentItem.clear_cache(): the store after the loop over the keys, and the
\* calls it makes.
clear_cache(store, keys) == store \ Range(keys)

clear_cache_calls(id, keys) ==
    << Call("clear_cache", id, "") >>
    \o [n \in DOMAIN keys |-> Call("cache.delete", keys[n].id, keys[n].slot)]

\* The answers plugin.get_output_cache_keys(placeholder_name, item) can give:
\* the one key of the default plugin, or the list of a plugin that names a
\* second key, the item's key under another slot name.
PluginKeys(placeholder_name, id) ==
    { get_output_cache_keys(placeholder_name, id) }
    \cup { get_output_cache_keys(placeholder_name, id) \o << CacheKey(slot, id) >> :
             slot \in Slots \ {placeholder_name} }

\* What cache.delete(key) can do when the cache store fails on it: raise, or
\* swallow the failure and return with the entry still there.
CacheFailures == {"raises", "ignored"}

\* Mutant of clear_cache_loop: the loop left after its first pass.
clear_cache_loop_first_key_only(store, id, keys, fail_at, failure) ==
    LET attempted == IF keys = <<>> THEN {} ELSE {1}
        raised == fail_at = 1 /\ failure = "raises" /\ keys # <<>>
    IN  [cache |-> store \ { keys[n] : n \in attempted \ {fail_at} },
         log   |-> << [Call("clear_cache", id, "") EXCEPT !.n = Len(keys)] >>
                   \o [n \in attempted |->
                         [Call("cache.delete", keys[n].id, keys[n].slot)
                            EXCEPT !.n = IF n = fail_at THEN 1 ELSE 0]]
                   \o (IF raised THEN << Call("CacheError", id, "") >>
                       ELSE <<>>)]

\* ContentItem.clear_cache() on a cache store that fails on the delete number
\* fail_at (0: on none): the loop calls cache.delete key by key, and an
\* exception of cache.delete leaves the loop and clear_cache.  The log
\* records the number of keys computed, each delete attempted (n = 1 on the
\* one that failed) and the exception that left clear_cache.
clear_cache_loop(store, id, keys, fail_at, failure) ==
    LET raised == fail_at # 0 /\ failure = "raises"
        attempted == IF raised THEN 1..fail_at ELSE DOMAIN keys
    IN  [cache |-> store \ { keys[n] : n \in attempted \ {fail_at} },
         log   |-> << [Call("clear_cache", id, "") EXCEPT !.n = Len(keys)] >>
                   \o [n \in attempted |->
                         [Call("cache.delete", keys[n].id, keys[n].slot)
                            EXCEPT !.n = IF n = fail_at THEN 1 ELSE 0]]
                   \o (IF raised THEN << Call("CacheError", id, "") >>
                       ELSE <<>>)]

\* A call of clear_cache() on the instance loaded from row `id`, whose plugin
\* answers get_output_cache_keys with plugin_keys.
ClearCache(id, plugin_keys, fail_at, failure) ==
    /\ pc = NULL
    /\ id \in DOMAIN contentitems
    /\ LET keys == IF contentitems[id].placeholder_id = NULL THEN <<>>
                   ELSE plugin_keys
           done == clear_cache_loop(cache, id, keys, fail_at, failure)
       IN  /\ fail_at \in 0..Len(keys)
           /\ cache' = done.cache
           /\ log' = done.log
    /\ UNCHANGED <<placeholders, contentitems, pc, before>>

----------------------------------------------------------------------------
(* Placeholder *)

\* Mutant of unique_together_violated: no unique index.
unique_together_unchecked(phs, row) == FALSE

\* unique_together = ('parent_type', 'parent_id', 'slot'): the unique index
\* rejects a row equal to a stored one in all three columns; a null column
\* never compares equal.
unique_together_violated(phs, row) ==
    /\ row.parent_type # NoType
    /\ row.parent_id # NULL
    /\ \E p \in DOMAIN phs :
          /\ phs[p].parent_type = row.parent_type
          /\ phs[p].parent_id = row.parent_id
          /\ phs[p].slot = row.slot

PlaceholderCreate(id, slot, parent) ==
    /\ pc = NULL
    /\ id \notin DOMAIN placeholders
    /\ LET row == Placeholder(slot, parent.parent_type, parent.parent_id) IN
       IF unique_together_violated(placeholders, row)
       THEN /\ placeholders' = placeholders
            /\ log' = << Call("IntegrityError", NULL, slot) >>
       ELSE /\ placeholders' = Put(placeholders, id, row)
            /\ log' = << Call("Placeholder.save", id, slot) >>
    /\ UNCHANGED <<contentitems, cache, pc, before>>

\* Mutant of detach_items: the update without its filter.
detach_items_unfiltered(items, p) ==
    [i \in DOMAIN items |-> [items[i] EXCEPT !.placeholder_id = NULL]]

\* ContentItem.objects.filter(placeholder=self).update(placeholder=None)
detach_items(items, p) ==
    [i \in DOMAIN items |->
        IF items[i].placeholder_id = p
        THEN [items[i] EXCEPT !.placeholder_id = NULL]
        ELSE items[i]]

\* on_delete=models.SET_NULL of ContentItem.placeholder, applied when the
\* placeholder row p is removed.
SET_NULL(items, p) ==
    [i \in DOMAIN items |->
        IF items[i].placeholder_id = p
        THEN [items[i] EXCEPT !.placeholder_id = NULL]
        ELSE items[i]]

\* Mutant of PlaceholderDeleteDetach: the two statements of delete() swapped,
\* the row goes first.
PlaceholderDeleteRowFirst(p) ==
    /\ pc = NULL
    /\ p \in DOMAIN placeholders
    /\ placeholders' = Remove(placeholders, p)
    /\ pc' = p
    /\ before' = contentitems
    /\ log' = << Call("Placeholder.delete", p, "") >>
    /\ UNCHANGED <<contentitems, cache>>

\* Mutant of PlaceholderDeleteDetach: the detach prunes the cache entries of
\* the items it detaches.
PlaceholderDeleteDetachPruning(p) ==
    /\ pc = NULL
    /\ p \in DOMAIN placeholders
    /\ contentitems' = detach_items(contentitems, p)
    /\ cache' = cache \ { CacheKey(placeholders[p].slot, i) :
                            i \in { j \in DOMAIN contentitems :
                                      contentitems[j].placeholder_id = p } }
    /\ pc' = p
    /\ before' = contentitems
    /\ log' = << [Call("ContentItem.update", p, placeholders[p].slot)
                    EXCEPT !.n = Cardinality(
                        { i \in DOMAIN contentitems :
                            contentitems[i].placeholder_id = p })] >>
    /\ UNCHANGED placeholders

\* Placeholder.delete(), first statement: the bulk detach.
PlaceholderDeleteDetach(p) ==
    /\ pc = NULL
    /\ p \in DOMAIN placeholders
    /\ contentitems' = detach_items(contentitems, p)
    /\ pc' = p
    /\ before' = contentitems
    /\ log' = << [Call("ContentItem.update", p, placeholders[p].slot)
                    EXCEPT !.n = Cardinality(
                        { i \in DOMAIN contentitems :
                            contentitems[i].placeholder_id = p })] >>
    /\ UNCHANGED <<placeholders, cache>>

\* Placeholder.delete(), second statement: the row removal.
PlaceholderDeleteRow ==
    /\ pc # NULL
    /\ contentitems' = SET_NULL(contentitems, pc)
    /\ placeholders' = Remove(placeholders, pc)
    /\ log' = Append(log, Call("Placeholder.delete", pc, ""))
    /\ pc' = NULL
    /\ before' = NoRows
    /\ UNCHANGED cache

\* The process dies between the two statements; the detach stays written.
PlaceholderDeleteCrash ==
    /\ pc # NULL
    /\ pc' = NULL
    /\ before' = NoRows
    /\ log' = Append(log, Call("crash", pc, ""))
    /\ UNCHANGED <<placeholders, contentitems, cache>>

----------------------------------------------------------------------------
(* ContentItem *)

\* Values the placeholder foreign key accepts: null or a stored placeholder.
fk_placeholder(phs) == DOMAIN phs \cup {NULL}

\* Mutant of language_fallback: the owner's language never consulted.
language_fallback_parent_ignored(language_code, parent_language) ==
    IF language_code # NoLanguage THEN language_code
    ELSE FLUENT_CONTENTS_DEFAULT_LANGUAGE_CODE

\* Mutant of language_fallback: the `or <default>` dropped.
language_fallback_no_default(language_code, parent_language) ==
    IF language_code # NoLanguage THEN language_code
    ELSE parent_language

\* get_parent_language_code(self.parent) or FLUENT_CONTENTS_DEFAULT_LANGUAGE_CODE
\* parent_language is the language the owner resolves, NoLanguage when the owner
\* is absent or resolves none.
language_fallback(language_code, parent_language) ==
    IF language_code # NoLanguage THEN language_code
    ELSE IF parent_language # NoLanguage THEN parent_language
    ELSE FLUENT_CONTENTS_DEFAULT_LANGUAGE_CODE

\* Mutant of save_clears_cache: clear_cache() in a finally clause.
save_clears_cache_on_error(is_new, written) == ~is_new

\* Mutant of save_clears_cache: the is_new test dropped.
save_clears_cache_on_create(is_new, written) == written

\* Whether save() reaches clear_cache(): the write returned and the instance
\* had a primary key before it.
save_clears_cache(is_new, written) == written /\ ~is_new

\* Mutant of save: the keys computed from the row as it was before the write.
save_clearing_previous_keys(id, is_new, inst, parent_language, written) ==
    LET item == [inst EXCEPT
                   !.language_code = language_fallback(@, parent_language)]
        keys == IF save_clears_cache(is_new, written)
                THEN get_cache_keys(contentitems[id], id, placeholders)
                ELSE <<>>
    IN  /\ contentitems' = IF written THEN Put(contentitems, id, item)
                           ELSE contentitems
        /\ cache' = IF save_clears_cache(is_new, written)
                    THEN clear_cache(cache, keys)
                    ELSE cache
        /\ log' = << Call(IF written THEN "Model.save" ELSE "DatabaseError",
                          id, "") >>
                  \o (IF save_clears_cache(is_new, written)
                      THEN clear_cache_calls(id, keys)
                      ELSE <<>>)
        /\ UNCHANGED <<placeholders, pc, before>>

\* ContentItem.save() of the instance `inst` whose primary key is `id`
\* (the key the database assigns when is_new).  `written` is whether the
\* underlying write succeeds; when it raises, save() raises with it.
save(id, is_new, inst, parent_language, written) ==
    LET item == [inst EXCEPT
                   !.language_code = language_fallback(@, parent_language)]
        keys == IF save_clears_cache(is_new, written)
                THEN get_cache_keys(item, id, placeholders)
                ELSE <<>>
    IN  /\ contentitems' = IF written THEN Put(contentitems, id, item)
                           ELSE contentitems
        /\ cache' = IF save_clears_cache(is_new, written)
                    THEN clear_cache(cache, keys)
                    ELSE cache
        /\ log' = << Call(IF written THEN "Model.save" ELSE "DatabaseError",
                          id, "") >>
                  \o (IF save_clears_cache(is_new, written)
                      THEN clear_cache_calls(id, keys)
                      ELSE <<>>)
        /\ UNCHANGED <<placeholders, pc, before>>

ItemCreate(id, parent, language_code, placeholder_id, sort_order, parent_language, written) ==
    /\ pc = NULL
    /\ id \notin DOMAIN contentitems
    /\ placeholder_id \in fk_placeholder(placeholders)
    /\ save(id, TRUE,
            ContentItem(parent.parent_type, parent.parent_id, language_code,
                        placeholder_id, sort_order),
            parent_language, written)

ItemUpdate(id, language_code, placeholder_id, sort_order, parent_language, written) ==
    /\ pc = NULL
    /\ id \in DOMAIN contentitems
    /\ placeholder_id \in fk_placeholder(placeholders)
    /\ save(id, FALSE,
            [contentitems[id] EXCEPT !.language_code = language_code,
                                     !.placeholder_id = placeholder_id,
                                     !.sort_order = sort_order],
            parent_language, written)

\* A save() whose underlying write raises: of a new instance (id = NULL, no
\* key assigned) or of the instance loaded from row `id`.  What the instance
\* holds does not matter to the outcome.
ItemSaveFails(id) ==
    IF id = NULL
    THEN ItemCreate(NULL, CHOOSE parent \in ItemParents : TRUE, NoLanguage,
                    NULL, 1, NoLanguage, FALSE)
    ELSE /\ id \in DOMAIN contentitems
         /\ ItemUpdate(id, contentitems[id].language_code,
                       contentitems[id].placeholder_id,
                       contentitems[id].sort_order, NoLanguage, FALSE)

\* Mutant of ContentItem_delete: the row removal without clear_cache().
ContentItem_delete_only_row(st, id) ==
    [items |-> Remove(st.items, id),
     cache |-> st.cache,
     log   |-> st.log \o << Call("Model.delete", id, "") >>]

\* ContentItem.delete() of the instance loaded from row `id`, applied to the
\* tables and cache in `st`: the row is removed, then clear_cache() runs on
\* the instance, which still carries its placeholder_id.
ContentItem_delete(st, id) ==
    LET inst == st.items[id]
        keys == get_cache_keys(inst, id, placeholders)
    IN  [items |-> Remove(st.items, id),
         cache |-> clear_cache(st.cache, keys),
         log   |-> st.log \o << Call("Model.delete", id, "") >>
                   \o clear_cache_calls(id, keys)]

ItemDelete(id) ==
    /\ pc = NULL
    /\ id \in DOMAIN contentitems
    /\ LET st == ContentItem_delete(
                    [items |-> contentitems, cache |-> cache, log |-> <<>>], id)
       IN  /\ contentitems' = st.items
           /\ cache' = st.cache
           /\ log' = st.log
    /\ UNCHANGED <<placeholders, pc, before>>

\* Rendering an item stores its output under the plugin's keys for the slot
\* of the placeholder it is linked to.
Render(id) ==
    /\ pc = NULL
    /\ id \in DOMAIN contentitems
    /\ contentitems[id].placeholder_id # NULL
    /\ LET keys == get_cache_keys(contentitems[id], id, placeholders) IN
       /\ cache' = cache \cup Range(keys)
       /\ log' = [n \in DOMAIN keys |->
                     Call("cache.set", keys[n].id, keys[n].slot)]
    /\ UNCHANGED <<placeholders, contentitems, pc, before>>

----------------------------------------------------------------------------
(* Queries *)

\* ContentItem.objects.parent(parent_object, limit_parent_language): the ids
\* of the rows of `items` owned by `parent`, restricted to `parent_language`
\* when limit_parent_language is set.
ContentItemQuerySet_parent(ids, items, parent, limit_parent_language, parent_language) ==
    { i \in ids :
        /\ items[i].parent_type = parent.parent_type
        /\ items[i].parent_id = parent.parent_id
        /\ limit_parent_language => items[i].language_code = parent_language }

\* The argument parent=None of get_content_items().
NoParent == [parent_type |-> NoType, parent_id |-> NULL]

\* Mutant of get_content_items: the filtered mode built on all items
\* instead of the placeholder's related set.
get_content_items_by_parent_only(p, parent, limit_parent_language, parent_language) ==
    IF parent # NoParent
    THEN ContentItemQuerySet_parent(DOMAIN contentitems, contentitems, parent,
                                    limit_parent_language, parent_language)
    ELSE { i \in DOMAIN contentitems :
             /\ contentitems[i].placeholder_id = p
             /\ contentitems[i].parent_type = placeholders[p].parent_type
             /\ contentitems[i].parent_id = placeholders[p].parent_id }

\* Mutant of get_content_items: the unfiltered mode without its filter on
\* the placeholder's own parent columns.
get_content_items_trusting_link(p, parent, limit_parent_language, parent_language) ==
    LET item_qs == { i \in DOMAIN contentitems :
                       contentitems[i].placeholder_id = p }
    IN  IF parent # NoParent
        THEN ContentItemQuerySet_parent(item_qs, contentitems, parent,
                                        limit_parent_language, parent_language)
        ELSE item_qs

\* Mutant of get_content_items: the filtered mode without the .parent()
\* filter, the placeholder's related set as it is.
get_content_items_unfiltered_by_parent(p, parent, limit_parent_language, parent_language) ==
    LET item_qs == { i \in DOMAIN contentitems :
                       contentitems[i].placeholder_id = p }
    IN  IF parent # NoParent
        THEN item_qs
        ELSE { i \in item_qs :
                 /\ contentitems[i].parent_type = placeholders[p].parent_type
                 /\ contentitems[i].parent_id = placeholders[p].parent_id }

\* Placeholder.get_content_items(parent, limit_parent_language) of the stored
\* placeholder p: the ids of the rows the queryset selects.  parent_language
\* is the language `parent` resolves.
get_content_items(p, parent, limit_parent_language, parent_language) ==
    LET item_qs == { i \in DOMAIN contentitems :
                       contentitems[i].placeholder_id = p }
    IN  IF parent # NoParent
        THEN ContentItemQuerySet_parent(item_qs, contentitems, parent,
                                        limit_parent_language, parent_language)
        ELSE { i \in item_qs :
                 /\ contentitems[i].parent_type = placeholders[p].parent_type
                 /\ contentitems[i].parent_id = placeholders[p].parent_id }

\* Mutant of OrderKeyLeq: ordering = ('placeholder',), sort_order dropped.
OrderKeyLeq_placeholder_only(a, b, nulls_first) ==
    LET rank(r) == IF r.placeholder_id = NULL /\ ~nulls_first
                   THEN Cardinality(PlaceholderIds) + 1 ELSE r.placeholder_id
    IN  rank(a) <= rank(b)

\* Meta.ordering = ('placeholder', 'sort_order'); where a null placeholder
\* sorts is the database's choice.
OrderKeyLeq(a, b, nulls_first) ==
    LET rank(r) == IF r.placeholder_id = NULL /\ ~nulls_first
                   THEN Cardinality(PlaceholderIds) + 1 ELSE r.placeholder_id
    IN  \/ rank(a) < rank(b)
        \/ rank(a) = rank(b) /\ a.sort_order <= b.sort_order

\* The orders in which a query may return the rows `ids` of `items`.
Ordered(ids, items) ==
    { s \in [1..Cardinality(ids) -> ids] :
        /\ \A m, n \in DOMAIN s : m # n => s[m] # s[n]
        /\ \E nulls_first \in BOOLEAN :
              \A m, n \in DOMAIN s :
                  m < n => OrderKeyLeq(items[s[m]], items[s[n]], nulls_first) }

\* A caller evaluates placeholder.get_content_items(...): the rows come back
\* in one of the orders the ordering allows.
GetContentItems(p, parent, limit_parent_language, parent_language) ==
    /\ pc = NULL
    /\ p \in DOMAIN placeholders
    /\ \E rows \in Ordered(get_content_items(p, parent, limit_parent_language,
                                             parent_language), contentitems) :
          log' = << [call |-> "get_content_items", id |-> p,
                     arg |-> IF parent = NoParent THEN "None"
                             ELSE IF limit_parent_language
                                  THEN parent_language ELSE "",
                     n |-> parent.parent_id] >>
                 \o [n \in DOMAIN rows |-> Call("row", rows[n], "")]
    /\ UNCHANGED <<placeholders, contentitems, cache, pc, before>>

----------------------------------------------------------------------------
(* Translation delete signal *)

\* Mutant of translation_items: limit_parent_language=False.
translation_items_all_languages(items, parent, language_code) ==
    ContentItemQuerySet_parent(DOMAIN items, items, parent, FALSE,
                               language_code)

\* parent_object.set_current_language(translation.language_code), then
\* ContentItem.objects.parent(parent_object, limit_parent_language=True)
translation_items(items, parent, language_code) ==
    ContentItemQuerySet_parent(DOMAIN items, items, parent, TRUE,
                               language_code)

\* Mutant of delete_each: the queryset's bulk delete.
delete_bulk(st, order) ==
    [items |-> [i \in DOMAIN st.items \ Range(order) |-> st.items[i]],
     cache |-> st.cache,
     log   |-> st.log \o << Call("QuerySet.delete", NULL, "") >>]

RECURSIVE delete_each(_, _)
\* for item in <queryset>: item.delete()
delete_each(st, order) ==
    IF order = <<>> THEN st
    ELSE delete_each(ContentItem_delete(st, Head(order)), Tail(order))

\* on_delete_model_translation(instance): the translation of `parent` in
\* `language_code` was deleted.
TranslationDelete(parent, language_code) ==
    /\ pc = NULL
    /\ LET found == translation_items(contentitems, parent, language_code)
       IN  \E order \in Ordered(found, contentitems) :
              LET st == delete_each(
                          [items |-> contentitems, cache |-> cache,
                           log |-> <<>>], order)
              IN  /\ contentitems' = st.items
                  /\ cache' = st.cache
                  /\ log' = << Call("post_translation_delete",
                                    parent.parent_id, language_code) >>
                            \o st.log
    /\ UNCHANGED <<placeholders, pc, before>>

----------------------------------------------------------------------------
(* URL of the owner *)

\* What the row an owner reference names is: gone, an object of a model
\* without get_absolute_url, or an object that has a URL.
OwnerStates == {"missing", "no_url", "url"}

\* The `parent` GenericForeignKey read on an instance: None when a column of
\* the reference is null or the row is gone, the owner object otherwise.
GenericForeignKey_get(parent_type, parent_id, owner) ==
    IF parent_type = NoType \/ parent_id = NULL \/ owner = "missing"
    THEN "None"
    ELSE owner

\* parent.get_absolute_url(): the URL, or the AttributeError of an object
\* (None included) that has no such method.
call_get_absolute_url(parent) ==
    IF parent = "url" THEN "url" ELSE "AttributeError"

\* Mutant of except_AttributeError: the call without its try/except.
except_nothing(outcome) == outcome

\* try: return <call>  except AttributeError: return None
except_AttributeError(outcome) ==
    IF outcome = "AttributeError" THEN "None" ELSE outcome

Placeholder_get_absolute_url(row, owner) ==
    IF row.parent_id = NULL \/ row.parent_type = NoType
    THEN "None"
    ELSE except_AttributeError(
             call_get_absolute_url(
                 GenericForeignKey_get(row.parent_type, row.parent_id, owner)))

ContentItem_get_absolute_url(row, owner) ==
    LET parent == GenericForeignKey_get(row.parent_type, row.parent_id, owner)
    IN  except_AttributeError(call_get_absolute_url(parent))

\* The log of a get_absolute_url call: the call with what the owner reference
\* names, then the value returned or the exception raised.
get_absolute_url_calls(name, id, owner, outcome) ==
    << Call(name, id, owner),
       IF outcome = "AttributeError" THEN Call("raise", id, outcome)
       ELSE Call("return", id, outcome) >>

PlaceholderGetAbsoluteUrl(p, owner) ==
    /\ pc = NULL
    /\ p \in DOMAIN placeholders
    /\ log' = get_absolute_url_calls(
                  "Placeholder.get_absolute_url", p, owner,
                  Placeholder_get_absolute_url(placeholders[p], owner))
    /\ UNCHANGED <<placeholders, contentitems, cache, pc, before>>

ContentItemGetAbsoluteUrl(id, owner) ==
    /\ pc = NULL
    /\ id \in DOMAIN contentitems
    /\ log' = get_absolute_url_calls(
                  "ContentItem.get_absolute_url", id, owner,
                  ContentItem_get_absolute_url(contentitems[id], owner))
    /\ UNCHANGED <<placeholders, contentitems, cache, pc, before>>

----------------------------------------------------------------------------
(* Specification *)

\* The language the owner resolves is read only when the instance has none.
ParentLanguages(language_code, languages) ==
    IF language_code = NoLanguage THEN languages \cup {NoLanguage}
    ELSE {NoLanguage}

PlaceholderCreates(slots, parents) ==
    \E id \in PlaceholderIds, slot \in slots, parent \in parents :
       PlaceholderCreate(id, slot, parent)

PlaceholderDeletes ==
    \/ \E p \in PlaceholderIds : PlaceholderDeleteDetach(p)
    \/ PlaceholderDeleteRow
    \/ PlaceholderDeleteCrash

ItemCreates(parents, languages, sort_orders) ==
    \E id \in ItemIds, parent \in parents,
       language_code \in languages \cup {NoLanguage},
       placeholder_id \in PlaceholderIds \cup {NULL},
       sort_order \in sort_orders :
       \E parent_language \in ParentLanguages(language_code, languages) :
          ItemCreate(id, parent, language_code, placeholder_id, sort_order,
                     parent_language, TRUE)

ItemUpdates(languages, sort_orders) ==
    \E id \in ItemIds,
       language_code \in languages \cup {NoLanguage},
       placeholder_id \in PlaceholderIds \cup {NULL},
       sort_order \in sort_orders :
       \E parent_language \in ParentLanguages(language_code, languages) :
          ItemUpdate(id, language_code, placeholder_id, sort_order,
                     parent_language, TRUE)

ItemSaveFailures == \E id \in ItemIds \cup {NULL} : ItemSaveFails(id)

ItemDeletes == \E id \in ItemIds : ItemDelete(id)

Renders == \E id \in ItemIds : Render(id)

TranslationDeletes(parents) ==
    \E parent \in parents, language_code \in Languages :
       TranslationDelete(parent, language_code)

\* The storage handlers over the content of two owners in two languages, in
\* placeholders of one slot; nothing fills the cache.
Next ==
    \/ PlaceholderCreates({"main"}, SavedParents)
    \/ PlaceholderDeletes
    \/ ItemCreates(ItemParents, Languages, {1})
    \/ ItemUpdates(Languages, {1})
    \/ ItemSaveFailures
    \/ ItemDeletes
    \/ TranslationDeletes(ItemParents)

Spec == Init /\ [][Next]_vars

\* The handlers together with rendering, over the content of one owner in
\* one language, in placeholders of two slots.
OneParent == { [parent_type |-> "page", parent_id |-> 1] }

NextCache ==
    \/ PlaceholderCreates(Slots, OneParent)
    \/ PlaceholderDeletes
    \/ ItemCreates(OneParent, {"en"}, {1})
    \/ ItemUpdates({"en"}, {1})
    \/ ItemSaveFailures
    \/ ItemDeletes
    \/ Renders

SpecCache == Init /\ [][NextCache]_vars

\* Saves of the items of one owner, whatever language the instance carries
\* and whatever language the owner resolves.
ItemSaves ==
    \E id \in ItemIds,
       language_code \in Languages \cup {NoLanguage},
       placeholder_id \in PlaceholderIds \cup {NULL},
       parent_language \in Languages \cup {NoLanguage} :
       \/ \E parent \in OneParent :
             ItemCreate(id, parent, language_code, placeholder_id, 1,
                        parent_language, TRUE)
       \/ ItemUpdate(id, language_code, placeholder_id, 1, parent_language,
                     TRUE)

NextLanguage ==
    \/ PlaceholderCreates({"main"}, OneParent)
    \/ ItemSaves
    \/ ItemSaveFailures

SpecLanguage == Init /\ [][NextLanguage]_vars

\* The tables a sequence of creates can leave: any placeholders of one slot
\* that the unique index admits, and any items whose placeholder link the
\* foreign key admits.
Tables(ids, rows) == UNION { [S -> rows] : S \in SUBSET ids }

PlaceholderRows ==
    { Placeholder("main", parent.parent_type, parent.parent_id) :
        parent \in SavedParents }

ContentItemRows(phs) ==
    { ContentItem(parent.parent_type, parent.parent_id, language_code,
                  placeholder_id, sort_order) :
        parent \in ItemParents, language_code \in Languages,
        placeholder_id \in fk_placeholder(phs), sort_order \in SortOrders }

InitQuery ==
    /\ placeholders \in
          { phs \in Tables(PlaceholderIds, PlaceholderRows) :
              \A p, q \in DOMAIN phs : p # q => phs[p] # phs[q] }
    /\ contentitems \in Tables(ItemIds, ContentItemRows(placeholders))
    /\ cache = {}
    /\ pc = NULL
    /\ before = NoRows
    /\ log = <<>>

\* Owner references a placeholder can be created with: parent_type and
\* parent_id are both nullable, each on its own.
PlaceholderOwners ==
    { [parent_type |-> t, parent_id |-> n] :
        t \in TypeTags \cup {NoType}, n \in ParentIds \cup {NULL} }

\* Placeholders created and deleted, for owners saved and not yet saved.
NextPlaceholder ==
    \/ PlaceholderCreates(Slots, PlaceholderOwners)
    \/ PlaceholderDeletes

SpecPlaceholder == Init /\ [][NextPlaceholder]_vars

\* The tables and cache contents the handlers can leave for the items of one
\* owner in placeholders of two slots: the cache warm, partly warm or cold,
\* stale entries included.
InvalidateRows(phs) ==
    { ContentItem(parent.parent_type, parent.parent_id, "en", placeholder_id, 1) :
        parent \in OneParent, placeholder_id \in fk_placeholder(phs) }

InitInvalidate ==
    /\ placeholders \in
          { phs \in Tables(PlaceholderIds,
                           { Placeholder(slot, parent.parent_type, parent.parent_id) :
                               slot \in Slots, parent \in OneParent }) :
              \A p, q \in DOMAIN phs : p # q => phs[p] # phs[q] }
    /\ contentitems \in Tables(ItemIds, InvalidateRows(placeholders))
    /\ cache \in SUBSET { CacheKey(slot, id) : slot \in Slots, id \in ItemIds }
    /\ pc = NULL
    /\ before = NoRows
    /\ log = <<>>

\* clear_cache() called on a stored item: the cache store works, or fails on
\* one delete.
NextInvalidate ==
    \/ \E id \in ItemIds, slot \in Slots :
          \E plugin_keys \in PluginKeys(slot, id) :
             /\ id \in DOMAIN contentitems
             /\ contentitems[id].placeholder_id # NULL
                   => placeholders[contentitems[id].placeholder_id].slot = slot
             /\ ClearCache(id, plugin_keys, 0, "ignored")
    \/ \E id \in ItemIds, slot \in Slots, failure \in CacheFailures :
          \E plugin_keys \in PluginKeys(slot, id) :
          \E fail_at \in 1..Len(plugin_keys) :
             /\ id \in DOMAIN contentitems
             /\ contentitems[id].placeholder_id # NULL
             /\ placeholders[contentitems[id].placeholder_id].slot = slot
             /\ ClearCache(id, plugin_keys, fail_at, failure)

SpecInvalidate == InitInvalidate /\ [][NextInvalidate]_vars

\* The rows get_absolute_url can be asked of: placeholders of owners saved
\* and not yet saved, and items of a saved owner or with a null parent_id.
InitUrl ==
    /\ placeholders \in
          { phs \in Tables(PlaceholderIds,
                           { Placeholder("main", parent.parent_type, parent.parent_id) :
                               parent \in PlaceholderOwners }) :
              \A p \in DOMAIN phs : ~unique_together_violated(Remove(phs, p), phs[p]) }
    /\ contentitems \in
          Tables(ItemIds,
                 { ContentItem(parent_type, parent_id, "en", NULL, 1) :
                     parent_type \in TypeTags, parent_id \in ParentIds \cup {NULL} })
    /\ cache = {}
    /\ pc = NULL
    /\ before = NoRows
    /\ log = <<>>

NextUrl ==
    \/ \E p \in PlaceholderIds, owner \in OwnerStates :
          PlaceholderGetAbsoluteUrl(p, owner)
    \/ \E id \in ItemIds, owner \in OwnerStates :
          ContentItemGetAbsoluteUrl(id, owner)

SpecUrl == InitUrl /\ [][NextUrl]_vars

\* The queries a caller can make of a stored placeholder.
NextQuery ==
    \/ \E p \in PlaceholderIds : GetContentItems(p, NoParent, TRUE, NoLanguage)
    \/ \E p \in PlaceholderIds, parent \in SavedParents :
          GetContentItems(p, parent, FALSE, NoLanguage)
    \/ \E p \in PlaceholderIds, parent \in SavedParents,
          parent_language \in Languages :
          GetContentItems(p, parent, TRUE, parent_language)

SpecQuery == InitQuery /\ [][NextQuery]_vars

----------------------------------------------------------------------------
(* Properties *)

\* The calls named `name` in a log.
CallsOf(l, name) == { n \in DOMAIN l : l[n].call = name }

\* The positions of a log at which `name` is called about primary key `id`.
CallsAbout(l, name, id) == { n \in DOMAIN l : l[n].call = name /\ l[n].id = id }

\* A row with its placeholder link cleared.
Detached(row) == [row EXCEPT !.placeholder_id = NULL]

\* C1 -- Detach-on-delete.  When Placeholder.delete(P) completes, P is no
\* longer stored (the other placeholders are), every item that was linked to
\* P when delete() was called is still stored, with a null placeholder link
\* and its owner reference, language and sort position as they were, and
\* every other item is stored unchanged.
C1_DetachOnDelete ==
    [][ (pc # NULL /\ pc' = NULL /\ log'[Len(log')].call = "Placeholder.delete")
        => /\ placeholders' = Remove(placeholders, pc)
           /\ pc \notin DOMAIN placeholders'
           /\ DOMAIN contentitems' = DOMAIN before
           /\ \A i \in DOMAIN before :
                 contentitems'[i] =
                    IF before[i].placeholder_id = pc
                    THEN Detached(before[i])
                    ELSE before[i]
      ]_vars

\* C1 witness: a completed Placeholder.delete() whose detach matched a row,
\* with another item left linked to another placeholder.
C1_Witness ==
    /\ pc = NULL
    /\ Len(log) = 2
    /\ log[1].call = "ContentItem.update" /\ log[1].n >= 1
    /\ log[2].call = "Placeholder.delete"
    /\ \E i, j \in DOMAIN contentitems :
          /\ contentitems[i].placeholder_id = NULL
          /\ contentitems[j].placeholder_id # NULL

\* C2 -- Referential integrity.  In every reachable state, the state between
\* the detach and the row removal of Placeholder.delete() included, every
\* stored item's placeholder link is null or the id of a stored placeholder.
C2_ReferentialIntegrity ==
    \A i \in DOMAIN contentitems :
        \/ contentitems[i].placeholder_id = NULL
        \/ contentitems[i].placeholder_id \in DOMAIN placeholders

\* C2 witness: Placeholder.delete(pc) has detached an item that was linked to
\* it and has not yet removed the row.
C2_Witness ==
    /\ pc # NULL
    /\ pc \in DOMAIN placeholders
    /\ \E i \in DOMAIN before :
          /\ before[i].placeholder_id = pc
          /\ i \in DOMAIN contentitems
          /\ contentitems[i].placeholder_id = NULL

\* C3 -- ContentItem.delete() of an item linked to a placeholder with slot s
\* removes the item's row and deletes from the cache every key the plugin
\* returns for (s, item), s being the slot the item had before the removal:
\* afterwards the row and each of those keys are absent.
C3_DeleteClearsKeys ==
    [][ \A i \in DOMAIN contentitems :
          (CallsAbout(log', "Model.delete", i) # {}
             /\ contentitems[i].placeholder_id # NULL)
          => /\ i \notin DOMAIN contentitems'
             /\ \A k \in Range(get_output_cache_keys(
                             placeholders[contentitems[i].placeholder_id].slot,
                             i)) :
                   k \notin cache'
      ]_vars

\* C3 witness: a ContentItem.delete() that has removed the row and called
\* cache.delete for a key, while an entry of another item is still cached.
C3_Witness ==
    /\ Len(log) = 3
    /\ log[1].call = "Model.delete"
    /\ log[3].call = "cache.delete"
    /\ log[1].id \notin DOMAIN contentitems
    /\ CacheKey(log[3].arg, log[3].id) \notin cache
    /\ cache # {}

\* C4 -- No stale cache entry survives a deletion: whenever an item is
\* deleted, the cache afterwards holds no entry under any key derived for
\* that item.  (The only writer of a key (slot, item) is a rendering of that
\* item under that slot.)
C4_NoStaleEntryAfterDelete ==
    [][ \A i \in DOMAIN contentitems \ DOMAIN contentitems' :
          \A s \in Slots : CacheKey(s, i) \notin cache'
      ]_vars

\* Whether the handler recorded in the log `l` is a save() of row `id`.
SaveOf(l, id) ==
    /\ l # <<>>
    /\ l[1].call \in {"Model.save", "DatabaseError"}
    /\ l[1].id = id

\* C5 -- Every save of an already persisted item invalidates its cache, and
\* only after the write.  When the write succeeds, every key of
\* get_cache_keys(item) is absent when save returns, and no cache.delete call
\* precedes the write; when the write fails, no key is deleted at all.
C5_UpdateClearsAfterWrite ==
    [][ \A i \in DOMAIN contentitems :
          SaveOf(log', i)
          => /\ log'[1].call = "Model.save"
                => /\ \A k \in Range(get_cache_keys(contentitems'[i], i,
                                                    placeholders')) :
                         k \notin cache'
                   /\ CallsAbout(log', "clear_cache", i) # {}
                   /\ \A n \in CallsOf(log', "cache.delete") : n > 1
             /\ log'[1].call = "DatabaseError"
                => /\ cache' = cache
                   /\ CallsOf(log', "cache.delete") = {}
                   /\ CallsOf(log', "clear_cache") = {}
      ]_vars

\* C5 witness: an update has written the row and then deleted the item's key,
\* while an entry of another item is still cached.
C5_Witness ==
    /\ Len(log) = 3
    /\ log[1].call = "Model.save"
    /\ log[2].call = "clear_cache"
    /\ log[3].call = "cache.delete"
    /\ CacheKey(log[3].arg, log[3].id) \notin cache
    /\ cache # {}

\* C6 -- No-op on creation.  A save that creates an item deletes no cache
\* key: the cache afterwards is the cache before, entries under the keys the
\* plugin derives for the new item and its slot included.
C6_CreateLeavesCache ==
    [][ \A i \in DOMAIN contentitems' \ DOMAIN contentitems :
          /\ cache' = cache
          /\ CallsOf(log', "clear_cache") = {}
          /\ CallsOf(log', "cache.delete") = {}
      ]_vars

\* C6 witness: an item has just been created in a placeholder while the
\* cache holds an entry under the very key the plugin derives for it.
C6_Witness ==
    /\ Len(log) = 1
    /\ log[1].call = "Model.save"
    /\ log[1].id \in DOMAIN contentitems
    /\ contentitems[log[1].id].placeholder_id # NULL
    /\ Range(get_cache_keys(contentitems[log[1].id], log[1].id, placeholders))
          \subseteq cache

\* Whether the handler recorded in the log `l` is the translation-delete
\* reaction for `parent` and `language_code`.
TranslationDeleteOf(l, parent, language_code) ==
    /\ l # <<>>
    /\ l[1] = Call("post_translation_delete", parent.parent_id, language_code)

\* C7 -- Scoped translation delete.  Handling 'the translation of parent P
\* in language L was deleted' removes exactly the items whose owner
\* reference is P and whose language is L; every other item and every
\* placeholder is still stored and unchanged.
C7_ScopedTranslationDelete ==
    [][ \A parent \in ItemParents, language_code \in Languages :
          TranslationDeleteOf(log', parent, language_code)
          => /\ placeholders' = placeholders
             /\ DOMAIN contentitems' =
                   { i \in DOMAIN contentitems :
                       ~ ( /\ contentitems[i].parent_type = parent.parent_type
                           /\ contentitems[i].parent_id = parent.parent_id
                           /\ contentitems[i].language_code = language_code ) }
             /\ \A i \in DOMAIN contentitems' :
                   contentitems'[i] = contentitems[i]
      ]_vars

\* C7 witness: a translation delete has removed an item and left an item of
\* the same owner in another language, in a stored placeholder.
C7_Witness ==
    /\ log # <<>>
    /\ log[1].call = "post_translation_delete"
    /\ CallsOf(log, "Model.delete") # {}
    /\ \E i \in DOMAIN contentitems :
          /\ contentitems[i].parent_id = log[1].id
          /\ contentitems[i].language_code # log[1].arg
          /\ contentitems[i].placeholder_id \in DOMAIN placeholders

\* C8 -- During the translation-delete reaction every removed item is
\* deleted by one delete() call of its own and clear_cache() runs exactly
\* once for it, and neither runs for an item that is not removed.
C8_OneInvalidationPerRemovedItem ==
    [][ (log' # <<>> /\ log'[1].call = "post_translation_delete")
        => \A i \in ItemIds :
              LET removed == i \in DOMAIN contentitems \ DOMAIN contentitems'
                  n == IF removed THEN 1 ELSE 0
              IN  /\ Cardinality(CallsAbout(log', "Model.delete", i)) = n
                  /\ Cardinality(CallsAbout(log', "clear_cache", i)) = n
      ]_vars

\* C8 witness: a translation delete that removed two items, with one
\* clear_cache() call for each.
C8_Witness ==
    /\ log # <<>>
    /\ log[1].call = "post_translation_delete"
    /\ Cardinality(CallsOf(log, "Model.delete")) = 2
    /\ Cardinality(CallsOf(log, "clear_cache")) = 2

\* The ids a query recorded in the log `l` returned.
RowsOf(l) == { l[n].id : n \in CallsOf(l, "row") }

\* Whether the log `l` records a get_content_items() call.
IsQuery(l) == l # <<>> /\ l[1].call = "get_content_items"

\* The owner reference of a row.
ParentOf(row) == [parent_type |-> row.parent_type, parent_id |-> row.parent_id]

\* Every item linked to a placeholder has that placeholder's owner reference.
Uncorrupted ==
    \A i \in DOMAIN contentitems :
        contentitems[i].placeholder_id # NULL
        => ParentOf(contentitems[i])
              = ParentOf(placeholders[contentitems[i].placeholder_id])

\* C9 -- Filtered/unfiltered agreement.  In an uncorrupted store, for every
\* placeholder P with owner O, get_content_items(P) without a parent and
\* get_content_items(P, parent=O, limit_parent_language=False) return the
\* same set of item ids: what either call returned is what the other selects.
C9_FilteredUnfilteredAgree ==
    (IsQuery(log) /\ Uncorrupted)
    => LET p == log[1].id
           owner == ParentOf(placeholders[p])
       IN  /\ log[1].arg = "None"
              => RowsOf(log) = get_content_items(p, owner, FALSE, NoLanguage)
           /\ (log[1].arg = "" /\ log[1].n = owner.parent_id)
              => RowsOf(log) = get_content_items(p, NoParent, TRUE, NoLanguage)

\* C9 witness: in an uncorrupted store, a query filtered by the placeholder's
\* owner returned an item, while another item of that owner is not linked to
\* the placeholder.
C9_Witness ==
    /\ IsQuery(log) /\ Uncorrupted
    /\ log[1].arg = ""
    /\ log[1].n = placeholders[log[1].id].parent_id
    /\ RowsOf(log) # {}
    /\ \E i \in DOMAIN contentitems :
          /\ contentitems[i].parent_id = log[1].n
          /\ contentitems[i].placeholder_id # log[1].id

\* C10 as claimed -- in unfiltered mode get_content_items(P) returns every
\* stored item whose placeholder link is P, whatever the item's own owner
\* reference is.
C10_UnfilteredTrustsLink ==
    (IsQuery(log) /\ log[1].arg = "None")
    => RowsOf(log) = { i \in DOMAIN contentitems :
                         contentitems[i].placeholder_id = log[1].id }

\* C10 as amended -- in unfiltered mode get_content_items(P) returns exactly
\* the stored items whose placeholder link is P and whose owner reference
\* (parent_type, parent_id) equals P's own; an item linked to P with another
\* owner reference is not returned.
C10_UnfilteredFiltersByOwnParent ==
    (IsQuery(log) /\ log[1].arg = "None")
    => RowsOf(log) = { i \in DOMAIN contentitems :
                         /\ contentitems[i].placeholder_id = log[1].id
                         /\ ParentOf(contentitems[i])
                               = ParentOf(placeholders[log[1].id]) }

\* C10 witness: an unfiltered query of a placeholder that has one linked item
\* of its own owner, which it returned, and one linked item of another owner,
\* which it did not.
C10_Witness ==
    /\ IsQuery(log) /\ log[1].arg = "None"
    /\ \E i, j \in DOMAIN contentitems :
          /\ contentitems[i].placeholder_id = log[1].id
          /\ contentitems[j].placeholder_id = log[1].id
          /\ ParentOf(contentitems[i]) = ParentOf(placeholders[log[1].id])
          /\ ParentOf(contentitems[j]) # ParentOf(placeholders[log[1].id])
          /\ i \in RowsOf(log)
          /\ j \notin RowsOf(log)

\* The owner a filtered query recorded in the log `l` was given.
QueryParent(l) == [parent_type |-> "page", parent_id |-> l[1].n]

\* Whether the log `l` records a get_content_items() call with a parent.
IsFilteredQuery(l) == IsQuery(l) /\ l[1].arg # "None"

\* Whether the row passes the language limit of the filtered query in `l`.
PassesLanguageLimit(l, row) == l[1].arg = "" \/ row.language_code = l[1].arg

\* C11 as claimed -- in filtered mode get_content_items(P, parent=O) derives
\* membership from the owner reference alone, independently of the stored
\* placeholder link: an item whose owner reference is O is returned whether
\* or not its placeholder link is P, and an item whose owner reference is
\* not O is never returned.
C11_FilteredIgnoresLink ==
    IsFilteredQuery(log)
    => RowsOf(log) = { i \in DOMAIN contentitems :
                         /\ ParentOf(contentitems[i]) = QueryParent(log)
                         /\ PassesLanguageLimit(log, contentitems[i]) }

\* C11 as amended -- in filtered mode get_content_items(P, parent=O) returns
\* exactly the items whose stored placeholder link is P and whose owner
\* reference is O (in O's language when the language limit is on): an item
\* of O that is not linked to P is not returned, and an item whose owner
\* reference is not O is never returned.
C11_FilteredWithinLinked ==
    IsFilteredQuery(log)
    => RowsOf(log) = { i \in DOMAIN contentitems :
                         /\ contentitems[i].placeholder_id = log[1].id
                         /\ ParentOf(contentitems[i]) = QueryParent(log)
                         /\ PassesLanguageLimit(log, contentitems[i]) }

\* C11 witness: a query of P filtered by O returned an item of O linked to P
\* and left out an item of O, in the same language, that is not linked to P.
C11_Witness ==
    /\ IsFilteredQuery(log)
    /\ \E i, j \in DOMAIN contentitems :
          /\ ParentOf(contentitems[i]) = QueryParent(log)
          /\ ParentOf(contentitems[j]) = QueryParent(log)
          /\ contentitems[i].language_code = contentitems[j].language_code
          /\ contentitems[i].placeholder_id = log[1].id
          /\ contentitems[j].placeholder_id # log[1].id
          /\ i \in RowsOf(log)
          /\ j \notin RowsOf(log)

\* The ids a query recorded in the log `l` returned, in the order returned.
RowSeqOf(l) == [n \in 1..(Len(l) - 1) |-> l[n + 1].id]

\* C16 -- Ordering stability.  Whatever ids the items of a placeholder got
\* and whatever sort positions they were given, get_content_items(P) returns
\* them in ascending sort position.
C16_AscendingSortOrder ==
    IsQuery(log)
    => \A m, n \in DOMAIN RowSeqOf(log) :
          m < n => contentitems[RowSeqOf(log)[m]].sort_order
                      <= contentitems[RowSeqOf(log)[n]].sort_order

\* C16 witness: a query returned two items of which the one inserted later
\* (the higher id) has the lower sort position and comes first.
C16_Witness ==
    /\ IsQuery(log)
    /\ Len(log) >= 3
    /\ log[2].id > log[3].id
    /\ contentitems[log[2].id].sort_order < contentitems[log[3].id].sort_order

\* The language tag the specification promises for a save of an instance
\* carrying `language_code` whose owner resolves `parent_language`.
PromisedLanguage(language_code, parent_language) ==
    CASE language_code # NoLanguage -> language_code
      [] language_code = NoLanguage /\ parent_language # NoLanguage
           -> parent_language
      [] OTHER -> FLUENT_CONTENTS_DEFAULT_LANGUAGE_CODE

\* C12 -- Language fallback.  A save of an item whose language tag is unset
\* stores the owner's language when the owner resolves one and the global
\* default when the owner is absent or resolves none, and the row is
\* written; a save of an item whose language tag is set stores that tag,
\* whatever the owner resolves.
C12_LanguageFallback ==
    [][ \A id \in ItemIds, language_code \in Languages \cup {NoLanguage},
           placeholder_id \in PlaceholderIds \cup {NULL},
           parent_language \in Languages \cup {NoLanguage} :
           ( \/ \E parent \in OneParent :
                   ItemCreate(id, parent, language_code, placeholder_id, 1,
                              parent_language, TRUE)
             \/ ItemUpdate(id, language_code, placeholder_id, 1,
                           parent_language, TRUE) )
           => /\ id \in DOMAIN contentitems'
              /\ contentitems'[id].language_code
                    = PromisedLanguage(language_code, parent_language) ]_vars

\* C12 witness: with the default language stored under one item by a save,
\* another item holds a language that is not the default.
C12_Witness ==
    /\ Len(log) >= 1
    /\ log[1].call = "Model.save"
    /\ contentitems[log[1].id].language_code
          = FLUENT_CONTENTS_DEFAULT_LANGUAGE_CODE
    /\ \E i \in DOMAIN contentitems :
          contentitems[i].language_code
             \notin {NoLanguage, FLUENT_CONTENTS_DEFAULT_LANGUAGE_CODE}

\* C13 -- With a non-empty global default language, after any sequence of
\* item creates and updates (an update may clear the language tag before it
\* saves) every stored item carries a non-empty language tag.
C13_LanguageNeverEmpty ==
    /\ FLUENT_CONTENTS_DEFAULT_LANGUAGE_CODE # NoLanguage
    /\ \A i \in DOMAIN contentitems :
          contentitems[i].language_code # NoLanguage

\* C13 witness: the last step was an update of a stored item (it reached
\* clear_cache), and every item id is in use.
C13_Witness ==
    /\ Len(log) >= 2
    /\ log[1].call = "Model.save"
    /\ log[2].call = "clear_cache"
    /\ DOMAIN contentitems = ItemIds

\* Whether the step is one of the two statements of Placeholder.delete().
IsPlaceholderDeleteStep ==
    \/ pc = NULL /\ pc' # NULL
    \/ pc # NULL /\ pc' = NULL /\ log'[Len(log')].call = "Placeholder.delete"

\* C19 -- Placeholder.delete(P) detaches the linked items by a bulk write
\* and runs no cache invalidation: neither of its statements changes the
\* cache store or calls clear_cache, so the entries warmed under P's slot
\* for the items it detaches are still present afterwards.
C19_PlaceholderDeleteKeepsCache ==
    [][ IsPlaceholderDeleteStep
        => /\ cache' = cache
           /\ CallsOf(log', "clear_cache") = {}
           /\ CallsOf(log', "cache.delete") = {}
           /\ \A i \in DOMAIN contentitems :
                 ( /\ pc = NULL
                   /\ contentitems[i].placeholder_id = pc'
                   /\ CacheKey(placeholders[pc'].slot, i) \in cache )
                 => /\ contentitems'[i].placeholder_id = NULL
                    /\ CacheKey(placeholders[pc'].slot, i) \in cache' ]_vars

\* C19 witness: the detach of Placeholder.delete(P) has run on an item whose
\* output was cached under P's slot; the item is detached, the entry stays.
C19_Witness ==
    /\ pc # NULL
    /\ \E i \in DOMAIN contentitems :
          /\ before[i].placeholder_id = pc
          /\ contentitems[i].placeholder_id = NULL
          /\ CacheKey(placeholders[pc].slot, i) \in cache

\* The cache key of a row under its placeholder link, none when the link is
\* null.
KeysUnderLink(row, id, phs) ==
    IF row.placeholder_id = NULL THEN {}
    ELSE { CacheKey(phs[row.placeholder_id].slot, id) }

\* C20 -- An update computes the keys to invalidate from the item's link as
\* it is after the write: moving an item from placeholder A (slot a) to
\* placeholder B (slot b) deletes only the key for (b, item) and leaves the
\* key for (a, item) in the cache store, and an update that sets the link
\* to null deletes no key at all.
C20_UpdateClearsNewLinkOnly ==
    [][ ( /\ Len(log') >= 1
          /\ log'[1].call = "Model.save"
          /\ log'[1].id \in DOMAIN contentitems )
        => LET i == log'[1].id
               old == KeysUnderLink(contentitems[i], i, placeholders)
               new == KeysUnderLink(contentitems'[i], i, placeholders)
           IN  /\ cache' = cache \ new
               /\ (old \ new) \cap cache \subseteq cache'
               /\ contentitems'[i].placeholder_id = NULL => cache' = cache
       ]_vars

\* C20 witness: an update has just written an item under a placeholder of
\* slot b and deleted the key for (b, item), and the key for (a, item) of
\* another slot a is in the cache store.
C20_Witness ==
    /\ Len(log) = 3
    /\ log[1].call = "Model.save"
    /\ log[3].call = "cache.delete"
    /\ contentitems[log[1].id].placeholder_id # NULL
    /\ placeholders[contentitems[log[1].id].placeholder_id].slot = log[3].arg
    /\ \E a \in Slots \ {log[3].arg} : CacheKey(a, log[1].id) \in cache

\* The keys the cache.delete calls recorded in the log `l` name.
DeletedKeys(l) ==
    { CacheKey(l[n].arg, l[n].id) : n \in CallsOf(l, "cache.delete") }

\* Whether the log `l` records a clear_cache() during which no delete failed.
IsClearCacheUnfailed(l) ==
    /\ Len(l) >= 1
    /\ l[1].call = "clear_cache"
    /\ \A n \in CallsOf(l, "cache.delete") : l[n].n = 0

\* C14 -- Cache invalidation is idempotent.  On a working cache store, warm,
\* partly warm or cold, clear_cache(item) raises nothing, calls delete on
\* every computed key (an absent one included), leaves every computed key
\* absent and every other entry as it was; run again with the same keys
\* right after, it leaves the cache store as the first run left it.
C14_ClearCacheIdempotent ==
    [][ IsClearCacheUnfailed(log')
        => /\ CallsOf(log', "CacheError") = {}
           /\ Cardinality(CallsOf(log', "cache.delete")) = log'[1].n
           /\ DeletedKeys(log') \cap cache' = {}
           /\ cache' \ DeletedKeys(log') = cache \ DeletedKeys(log')
           /\ cache' \subseteq cache
           /\ (IsClearCacheUnfailed(log) /\ log' = log) => cache' = cache
      ]_vars

\* C14 witness: clear_cache has run on a partly warm cache over two keys,
\* one of them absent before the run, and an entry of another item is
\* still in the store.
C14_Witness ==
    /\ IsClearCacheUnfailed(log)
    /\ log[1].n = 2
    /\ \E k \in cache : k.id # log[1].id
    /\ DeletedKeys(log) \cap cache = {}

\* C17 -- Best-effort invalidation attempts every key.  When the cache store
\* fails on deleting one of the computed keys, clear_cache still calls delete
\* on every other computed key before it returns.
C17_EveryKeyAttempted ==
    ( /\ Len(log) >= 1
      /\ log[1].call = "clear_cache"
      /\ \E n \in CallsOf(log, "cache.delete") : log[n].n = 1 )
    => Cardinality(CallsOf(log, "cache.delete")) = log[1].n

\* Whether two placeholder rows share (parent_type, parent_id, slot).
SameOwnerAndSlot(a, b) ==
    /\ a.parent_type = b.parent_type
    /\ a.parent_id = b.parent_id
    /\ a.slot = b.slot

\* Whether the owner reference of a placeholder row is set in both columns.
OwnerSet(row) == row.parent_type # NoType /\ row.parent_id # NULL

\* C15 as claimed -- Placeholder uniqueness for all owner references, the
\* not-yet-set owner (null type tag or null id) included: in every reachable
\* state no two stored placeholders share (ownerTypeTag, ownerId, slot).
C15_UniqueForEveryOwner ==
    \A p, q \in DOMAIN placeholders :
       p # q => ~SameOwnerAndSlot(placeholders[p], placeholders[q])

\* C15 as amended -- Placeholder uniqueness for owner references set in both
\* columns: no step leaves two stored placeholders with such an owner that
\* share (ownerTypeTag, ownerId, slot), and a create the unique index
\* rejects leaves the tables unchanged and is one whose slot is stored under
\* an owner set in both columns.
C15_UniqueForSetOwner ==
    [][ /\ \A p, q \in DOMAIN placeholders' :
              (p # q /\ OwnerSet(placeholders'[p]))
              => ~SameOwnerAndSlot(placeholders'[p], placeholders'[q])
        /\ (Len(log') >= 1 /\ log'[1].call = "IntegrityError")
           => /\ placeholders' = placeholders
              /\ contentitems' = contentitems
              /\ \E p \in DOMAIN placeholders :
                    /\ OwnerSet(placeholders[p])
                    /\ placeholders[p].slot = log'[1].arg ]_vars

\* C15 witness: a create was rejected by the unique index while the store
\* holds a placeholder of that slot for an owner set in both columns.
C15_Witness ==
    /\ Len(log) >= 1
    /\ log[1].call = "IntegrityError"
    /\ \E p \in DOMAIN placeholders :
          /\ OwnerSet(placeholders[p])
          /\ placeholders[p].slot = log[1].arg

\* The row a get_absolute_url call recorded in the log `l` was made on.
UrlCallRow(l) ==
    IF l[1].call = "Placeholder.get_absolute_url" THEN placeholders[l[1].id]
    ELSE contentitems[l[1].id]

\* C18 -- URL resolution never raises on an unresolved owner.
\* get_absolute_url of a placeholder and of a content item changes no state
\* and raises nothing; it returns the owner's URL when the owner reference
\* is set, its row exists and the owner has a URL, and None when the type
\* tag or the id is unset, when the owner row is gone, or when the owner
\* exposes no URL.
C18_UrlNeverRaises ==
    [][ ( /\ Len(log') >= 1
          /\ log'[1].call \in {"Placeholder.get_absolute_url",
                               "ContentItem.get_absolute_url"} )
        => /\ UNCHANGED <<placeholders, contentitems, cache>>
           /\ Len(log') = 2
           /\ log'[2].call = "return"
           /\ log'[2].arg = IF OwnerSet(UrlCallRow(log')) /\ log'[1].arg = "url"
                            THEN "url"
                            ELSE "None" ]_vars

\* C18 witness: get_absolute_url of a content item whose owner reference is
\* set and whose owner row is gone has returned None.
C18_Witness ==
    /\ Len(log) = 2
    /\ log[1].call = "ContentItem.get_absolute_url"
    /\ log[1].arg = "missing"
    /\ OwnerSet(contentitems[log[1].id])
    /\ log[2].call = "return"
    /\ log[2].arg = "None"

====
